---------------------------- MODULE Spec2Model ----------------------------
(***************************************************************************)
(* A model of the voice assistant's conversation core:                     *)
(*   voice_assistant/assistant_manager.py  (AssistantManager)              *)
(*   voice_assistant/nlp_processor.py      (NLPProcessor)                  *)
(*   voice_assistant/speech_recognition.py (SpeechRecognizer)              *)
(*   voice_assistant/text_to_speech.py     (TextToSpeech)                  *)
(*   rag_client/api_client.py              (RAGAPIClient)                  *)
(*                                                                         *)
(* Texts are sequences of strings.  A text typed or recognized is a        *)
(* sequence of one-character strings, so that matching, trimming and       *)
(* lower-casing are computed character by character; a fixed message of    *)
(* the program is a one-element sequence holding the message.  The empty   *)
(* text is << >>.  Python's None is << >> of an option: None == << >>,     *)
(* Some(x) == << x >>.                                                     *)
(***************************************************************************)
EXTENDS Naturals, Sequences, FiniteSets, TLC

\* ------------------------------------------------------------------ bounds

\* The number of requests (listen_and_respond and process_text_input calls)
\* a behaviour makes.
MaxOps == 2

\* ------------------------------------------------------------ option values

None == << >>

Some(x) == << x >>

\* ------------------------------------------------------------------- texts

Whitespace == {" ", "\t", "\n", "\r", "\f"}

LowerMap == ("A" :> "a") @@ ("B" :> "b") @@ ("C" :> "c") @@ ("D" :> "d") @@ ("E" :> "e") @@ ("F" :> "f") @@ ("G" :> "g") @@ ("H" :> "h") @@ ("I" :> "i") @@ ("J" :> "j") @@ ("K" :> "k") @@ ("L" :> "l") @@ ("M" :> "m") @@ ("N" :> "n") @@ ("O" :> "o") @@ ("P" :> "p") @@ ("Q" :> "q") @@ ("R" :> "r") @@ ("S" :> "s") @@ ("T" :> "t") @@ ("U" :> "u") @@ ("V" :> "v") @@ ("W" :> "w") @@ ("X" :> "x") @@ ("Y" :> "y") @@ ("Z" :> "z")

\* str.lower() on one character.
LowerChar(c) == IF c \in DOMAIN LowerMap THEN LowerMap[c] ELSE c

\* str.lower().
Lower(s) == [i \in 1..Len(s) |-> LowerChar(s[i])]

\* The number of leading whitespace characters of s.
RECURSIVE LeadingSpace(_)
LeadingSpace(s) ==
    IF s = << >> \/ Head(s) \notin Whitespace THEN 0 ELSE 1 + LeadingSpace(Tail(s))

\* The number of trailing whitespace characters of s.
RECURSIVE TrailingSpace(_)
TrailingSpace(s) ==
    IF s = << >> \/ s[Len(s)] \notin Whitespace
    THEN 0
    ELSE 1 + TrailingSpace(SubSeq(s, 1, Len(s) - 1))

\* str.strip().
Strip(s) ==
    IF LeadingSpace(s) = Len(s)
    THEN << >>
    ELSE SubSeq(s, LeadingSpace(s) + 1, Len(s) - TrailingSpace(s))

\* Python truthiness of an optional text: None and "" are false.
Truthy(q) == q # None /\ q[1] # << >>

\* config.py
DEFAULT_USER_NAME == <<"U", "s", "e", "r">>

DEFAULT_USER_TYPE == <<"s", "t", "u", "d", "e", "n", "t">>

\* --------------------------------------------------------- command patterns

PatHelp == <<"h", "e", "l", "p">>

PatWhatCanYouDo == <<"w", "h", "a", "t", " ", "c", "a", "n", " ", "y", "o", "u", " ", "d", "o">>

PatWhatCommands == <<"w", "h", "a", "t", " ", "c", "o", "m", "m", "a", "n", "d", "s">>

PatExit == <<"e", "x", "i", "t">>

PatQuit == <<"q", "u", "i", "t">>

PatGoodbye == <<"g", "o", "o", "d", "b", "y", "e">>

PatRepeat == <<"r", "e", "p", "e", "a", "t">>

PatSayThatAgain == <<"s", "a", "y", " ", "t", "h", "a", "t", " ", "a", "g", "a", "i", "n">>

PatWhatDidYouSay == <<"w", "h", "a", "t", " ", "d", "i", "d", " ", "y", "o", "u", " ", "s", "a", "y">>

PatIAmA == <<"i", " ", "a", "m", " ", "a", " ">>

PatStaff == <<"s", "t", "a", "f", "f">>

PatStudent == <<"s", "t", "u", "d", "e", "n", "t">>

PatSet == <<"s", "e", "t">>

PatCall == <<"c", "a", "l", "l">>

PatChange == <<"c", "h", "a", "n", "g", "e">>

PatMyNameTo == <<" ", "m", "y", " ", "n", "a", "m", "e", " ", "t", "o", " ">>

PatWhatIsYourName == <<"w", "h", "a", "t", " ", "i", "s", " ", "y", "o", "u", "r", " ", "n", "a", "m", "e">>

PatWhoAreYou == <<"w", "h", "o", " ", "a", "r", "e", " ", "y", "o", "u">>

\* Three characters outside ASCII, each written as one element of a text:
\* the long s (U+017F), the capital I with dot above (U+0130) and the
\* Kelvin sign (U+212A).
LongS == "U+017F"

DottedI == "U+0130"

KelvinSign == "U+212A"

\* The characters re.IGNORECASE equates with a lower-case ASCII letter of a
\* str pattern: the upper-case letter, and the long s with "s", the dotted
\* capital I with "i", the Kelvin sign with "k".  str.lower() leaves the long
\* s as it is.
IgnoreCaseMap == LowerMap @@ (LongS :> "s") @@ (DottedI :> "i") @@ (KelvinSign :> "k")

\* The lower-case ASCII letter a character is matched as under
\* re.IGNORECASE.
FoldChar(c) == IF c \in DOMAIN IgnoreCaseMap THEN IgnoreCaseMap[c] ELSE c

\* re.IGNORECASE prefix match of the lower-case literal p at the start of s
\* (pattern.match anchors at the start; this is "^p").
StartsWithCI(s, p) ==
    /\ Len(s) >= Len(p)
    /\ \A i \in 1..Len(p) : FoldChar(s[i]) = p[i]

\* "$" at position i of s (the character after the matched part): the end
\* of the string, or just before a newline that ends the string.
AtEnd(s, i) == i = Len(s) + 1 \/ (i = Len(s) /\ s[i] = "\n")

\* "^p$" with re.IGNORECASE.
FullMatchCI(s, p) == StartsWithCI(s, p) /\ AtEnd(s, Len(p) + 1)

\* The verbs of the set_user_name pattern, "(set|call|change)", in the
\* order the alternation tries them.
NameVerbs == <<PatSet, PatCall, PatChange>>

\* The verbs v for which s starts with "v my name to ".
MatchingVerbs(s) == {i \in 1..Len(NameVerbs) : StartsWithCI(s, NameVerbs[i] \o PatMyNameTo)}

\* What "(.+)$" captures from the rest r of the string: one or more
\* characters other than a newline, up to the end of the string or to the
\* newline that ends it.  None when it does not match.
DotPlusToEnd(r) ==
    LET body == IF r # << >> /\ r[Len(r)] = "\n" THEN SubSeq(r, 1, Len(r) - 1) ELSE r
    IN  IF body # << >> /\ \A i \in 1..Len(body) : body[i] # "\n"
        THEN Some(body)
        ELSE None

\* group(2) of the set_user_name pattern on s, None when s does not match.
NameGroup(s) ==
    IF MatchingVerbs(s) = {}
    THEN None
    ELSE LET v == CHOOSE i \in MatchingVerbs(s) : \A j \in MatchingVerbs(s) : i <= j
             n == Len(NameVerbs[v] \o PatMyNameTo)
         IN  DotPlusToEnd(SubSeq(s, n + 1, Len(s)))

\* group(1) of the set_user_type pattern on s, None when s does not match.
TypeGroup(s) ==
    IF FullMatchCI(s, PatIAmA \o PatStaff) \/ FullMatchCI(s, PatIAmA \o PatStudent)
    THEN Some(SubSeq(s, Len(PatIAmA) + 1, Len(PatIAmA) + Len(IF FullMatchCI(s, PatIAmA \o PatStaff) THEN PatStaff ELSE PatStudent)))
    ELSE None

\* Whether the pattern of an intent matches s.
PatternMatches(intent, s) ==
    CASE intent = "help" ->
            FullMatchCI(s, PatHelp) \/ FullMatchCI(s, PatWhatCanYouDo) \/ StartsWithCI(s, PatWhatCommands)
      [] intent = "exit" ->
            FullMatchCI(s, PatExit) \/ FullMatchCI(s, PatQuit) \/ FullMatchCI(s, PatGoodbye)
      [] intent = "repeat" ->
            FullMatchCI(s, PatRepeat) \/ FullMatchCI(s, PatSayThatAgain) \/ StartsWithCI(s, PatWhatDidYouSay)
      [] intent = "set_user_type" -> TypeGroup(s) # None
      [] intent = "set_user_name" -> NameGroup(s) # None
      [] intent = "get_assistant_name" ->
            FullMatchCI(s, PatWhatIsYourName) \/ FullMatchCI(s, PatWhoAreYou)

\* The pattern table, in the order the dictionary is iterated.
command_patterns == <<"help", "exit", "repeat", "set_user_type", "set_user_name", "get_assistant_name">>

\* _detect_command_intent: the first intent of the table whose pattern
\* matches, "none" when none does.
detect_command_intent(s) ==
    LET hits == {i \in 1..Len(command_patterns) : PatternMatches(command_patterns[i], s)}
    IN  IF hits = {}
        THEN "none"
        ELSE command_patterns[CHOOSE i \in hits : \A j \in hits : i <= j]

\* ---------------------------------------------------------------- messages

MsgDidntCatch == <<"I didn't catch that. Could you please repeat?">>

MsgApology == <<"I'm sorry, I encountered an error while processing your request.">>

MsgGoodbye == <<"Goodbye! Have a great day.">>

MsgWillRepeat == <<"I'll repeat my last response.">>

MsgAssistantName == <<"I'm your AI voice assistant. You can call me Assistant.">>

MsgUnknownCommand == <<"I'm not sure how to handle that command.">>

MsgNothingSaid == <<"I haven't said anything yet.">>

\* _get_help_text
get_help_text == <<"Here are some things you can ask me:\n\n- Ask any question and I'll try to find the answer\n- \"Set my name to [name]\" to change your name\n- \"I am a [staff/student]\" to change your user type\n- \"What's your name?\" to learn about me\n- \"Repeat\" to repeat my last response\n- \"Exit\" or \"Quit\" to exit\n\nHow can I help you today?">>

\* ------------------------------------------------------- results of a call

\* A call that returned v.
Ok(v) == [raised |-> FALSE, value |-> v]

\* A call that raised an exception whose str() is e.
Raise(e) == [raised |-> TRUE, exc |-> e]

\* ------------------------------------------------------------ RAGAPIClient

\* dict.get(key, default) on a JSON object.
Get(d, key, default) == IF key \in DOMAIN d THEN d[key] ELSE default

\* str(e) of the exception the HTTP exchange raises, for the behaviours of
\* the Answer Service that raise one.
HttpCause(http) ==
    CASE http.kind = "conn_error" -> "Connection refused"
      [] http.kind = "timeout" -> "Read timed out"
      [] http.kind = "bad_status" -> "500 Server Error"
      [] http.kind = "not_json" -> "Expecting value: line 1 column 1 (char 0)"
      [] http.kind = "json_not_object" -> "'list' object has no attribute 'get'"

\* The request payload of RAGAPIClient.query.
Payload(query_text, user_name, user_type) ==
    [name |-> IF user_name # << >> THEN user_name ELSE DEFAULT_USER_NAME,
     user_type |-> IF user_type # << >> THEN user_type ELSE DEFAULT_USER_TYPE,
     message |-> query_text]

\* A RAGAPIClient.query that does not copy the confidence and the sources
\* of the reply.
rag_client_query_without_metadata(query_text, http) ==
    IF query_text = << >>
    THEN Raise(<<"Query text cannot be empty">>)
    ELSE CASE http.kind \in {"conn_error", "timeout", "bad_status"} ->
                  Raise(<<"Failed to connect to RAG API: ", HttpCause(http)>>)
           [] http.kind = "not_json" ->
                  Raise(<<"Invalid response from RAG API: ", HttpCause(http)>>)
           [] http.kind = "json_not_object" ->
                  Raise(<<HttpCause(http)>>)
           [] http.kind = "json" ->
                  Ok([answer |-> Get(http.body, "response", << >>),
                      confidence |-> 0,
                      sources |-> << >>,
                      query |-> query_text,
                      raw_response |-> http.body])

\* RAGAPIClient.query once the Answer Service has behaved as http: the
\* result dictionary, or the exception raised.  (The timestamp is left out.)
rag_client_query(query_text, http) ==
    IF query_text = << >>
    THEN Raise(<<"Query text cannot be empty">>)
    ELSE CASE http.kind \in {"conn_error", "timeout", "bad_status"} ->
                  Raise(<<"Failed to connect to RAG API: ", HttpCause(http)>>)
           [] http.kind = "not_json" ->
                  Raise(<<"Invalid response from RAG API: ", HttpCause(http)>>)
           [] http.kind = "json_not_object" ->
                  Raise(<<HttpCause(http)>>)
           [] http.kind = "json" ->
                  Ok([answer |-> Get(http.body, "response", << >>),
                      confidence |-> Get(http.body, "confidence", 0),
                      sources |-> Get(http.body, "sources", << >>),
                      query |-> query_text,
                      raw_response |-> http.body])

\* ------------------------------------------------------------ NLPProcessor

\* process_query, lines 53-59: the record for a query that is None or "".
EmptyQueryRecord ==
    [query |-> << >>, response |-> MsgDidntCatch, success |-> FALSE, is_command |-> FALSE]

\* _handle_command: the response record, and the dispatcher's user name and
\* user type after the command (None: not assigned).
handle_command(intent, query_text) ==
    CASE intent = "help" ->
            [rec |-> [query |-> query_text, is_command |-> TRUE, intent |-> intent,
                      success |-> TRUE, response |-> get_help_text],
             name |-> None, type |-> None]
      [] intent = "exit" ->
            [rec |-> [query |-> query_text, is_command |-> TRUE, intent |-> intent,
                      success |-> TRUE, response |-> MsgGoodbye, should_exit |-> TRUE],
             name |-> None, type |-> None]
      [] intent = "repeat" ->
            [rec |-> [query |-> query_text, is_command |-> TRUE, intent |-> intent,
                      success |-> TRUE, response |-> MsgWillRepeat, should_repeat |-> TRUE],
             name |-> None, type |-> None]
      [] intent = "set_user_type" ->
            LET user_type == Lower(TypeGroup(query_text)[1])
            IN  [rec |-> [query |-> query_text, is_command |-> TRUE, intent |-> intent,
                          success |-> TRUE,
                          response |-> <<"I've updated your user type to ">> \o user_type \o <<".">>,
                          user_type_changed |-> TRUE],
                 name |-> None, type |-> Some(user_type)]
      [] intent = "set_user_name" ->
            LET user_name == Strip(NameGroup(query_text)[1])
            IN  [rec |-> [query |-> query_text, is_command |-> TRUE, intent |-> intent,
                          success |-> TRUE,
                          response |-> <<"I'll call you ">> \o user_name \o <<" from now on.">>,
                          user_name_changed |-> TRUE],
                 name |-> Some(user_name), type |-> None]
      [] intent = "get_assistant_name" ->
            [rec |-> [query |-> query_text, is_command |-> TRUE, intent |-> intent,
                      success |-> TRUE, response |-> MsgAssistantName],
             name |-> None, type |-> None]
      [] OTHER ->
            [rec |-> [query |-> query_text, is_command |-> TRUE, intent |-> intent,
                      success |-> FALSE, response |-> MsgUnknownCommand],
             name |-> None, type |-> None]

\* A dispatcher whose except clause leaves the error out of the record and
\* answers with an empty text.
process_query_try_without_error(query_text, r) ==
    IF r.raised
    THEN Ok([query |-> query_text, response |-> << >>, success |-> FALSE,
             is_command |-> FALSE])
    ELSE Ok([query |-> query_text, response |-> r.value.answer,
             confidence |-> r.value.confidence, sources |-> r.value.sources,
             success |-> TRUE, is_command |-> FALSE, raw_response |-> r.value])

\* A dispatcher without the except clause: the exception of
\* rag_client.query leaves process_query.
process_query_try_without_except(query_text, r) ==
    IF r.raised
    THEN r
    ELSE Ok([query |-> query_text, response |-> r.value.answer,
             confidence |-> r.value.confidence, sources |-> r.value.sources,
             success |-> TRUE, is_command |-> FALSE, raw_response |-> r.value])

\* process_query, lines 67-97: what the try statement makes of the result r
\* of rag_client.query.
process_query_try(query_text, r) ==
    IF r.raised
    THEN Ok([query |-> query_text, response |-> MsgApology, success |-> FALSE,
             is_command |-> FALSE, error |-> r.exc])
    ELSE Ok([query |-> query_text, response |-> r.value.answer,
             confidence |-> r.value.confidence, sources |-> r.value.sources,
             success |-> TRUE, is_command |-> FALSE, raw_response |-> r.value])

\* ------------------------------------------------------------------ inputs

TxtEmpty == << >>

TxtBlank == <<" ", " ">>

TxtTab == <<"\t">>

TxtRepeat == <<"r", "e", "p", "e", "a", "t">>

TxtSayThatAgain == <<"S", "a", "y", " ", "t", "h", "a", "t", " ", "a", "g", "a", "i", "n">>

TxtHi == <<"h", "i">>

TxtIAmAStaff == <<"I", " ", "a", "m", " ", "a", " ", "S", "T", "A", "F", "F">>

\* What recognize_google makes of the captured audio: a text, or one of the
\* two exceptions recognize_from_microphone catches.
Heard(text) == [kind |-> "text", text |-> text]

UnknownValueError == [kind |-> "unknown_value"]

RequestError == [kind |-> "request_error"]

\* The behaviours of the Answer Service on one request: a JSON object, or
\* one of the failures of the exchange.
Json(body) == [kind |-> "json", body |-> body]

FullReply == Json([response |-> <<"hello">>, confidence |-> 90, sources |-> <<"doc">>])

Failure(k) == [kind |-> k]

\* The inputs of the concurrent specification.
TextInputs == {TxtHi, TxtIAmAStaff}

Transcriptions == {Heard(TxtHi), UnknownValueError, RequestError}

HttpBehaviours == {FullReply}

\* The inputs of the specification that runs one turn at a time.
AllTextInputs == {TxtEmpty, TxtBlank, TxtTab, TxtRepeat, TxtSayThatAgain, TxtHi, TxtIAmAStaff}

AllTranscriptions == {Heard(TxtHi), Heard(TxtRepeat), Heard(TxtEmpty), UnknownValueError, RequestError}

AllHttpBehaviours ==
    {FullReply,
     Json([response |-> <<"hello">>]),
     Json([response |-> << >>, confidence |-> 10]),
     Json([confidence |-> 50, sources |-> <<"doc">>]),
     Failure("conn_error"), Failure("timeout"), Failure("bad_status"),
     Failure("not_json"), Failure("json_not_object")}

\* ------------------------------------------------------------------- state

Ops == 1..MaxOps

VARIABLES
    \* AssistantManager
    is_listening, is_speaking, last_query, last_response, conversation_history,
    user_name, user_type,
    \* NLPProcessor
    nlp_user_name, nlp_user_type,
    \* SpeechRecognizer: its flag, and the threads inside "with sr.Microphone()"
    sr_is_listening, microphone,
    \* TextToSpeech
    tts_is_speaking,
    \* the requests made so far, and for each its kind ("voice", "text"), the
    \* position of its thread, and the thread's locals: query_text (text, in
    \* process_text_input), response_data and the user name read for the
    \* request to the Answer Service
    started, kind, pc, query_text, response_data, req_name,
    \* how the Answer Service behaved on the request of each turn
    answer,
    \* the position of the speech thread each request started
    speak_pc

manager_vars == <<is_listening, is_speaking, last_query, last_response,
                  conversation_history, user_name, user_type>>

nlp_vars == <<nlp_user_name, nlp_user_type>>

device_vars == <<sr_is_listening, microphone, tts_is_speaking>>

thread_vars == <<started, kind, pc, query_text, response_data, req_name, answer, speak_pc>>

vars == <<manager_vars, nlp_vars, device_vars, thread_vars>>

\* The positions at which a thread has ended: "done" after the whole
\* pipeline, "no_speech" at lines 129-131, "rejected" when the request
\* returned at once (lines 84-86, 162-163), "raised" by an exception.
Ended == {"done", "no_speech", "rejected", "raised", "returned"}

\* ------------------------------------------------------------------- Init

Init ==
    /\ is_listening = FALSE
    /\ is_speaking = FALSE
    /\ last_query = None
    /\ last_response = None
    /\ conversation_history = << >>
    /\ user_name = DEFAULT_USER_NAME
    /\ user_type = DEFAULT_USER_TYPE
    /\ nlp_user_name = DEFAULT_USER_NAME
    /\ nlp_user_type = DEFAULT_USER_TYPE
    /\ sr_is_listening = FALSE
    /\ microphone = {}
    /\ tts_is_speaking = FALSE
    /\ started = 0
    /\ kind = [k \in Ops |-> "none"]
    /\ pc = [k \in Ops |-> "none"]
    /\ query_text = [k \in Ops |-> None]
    /\ response_data = [k \in Ops |-> None]
    /\ req_name = [k \in Ops |-> None]
    /\ answer = [k \in Ops |-> None]
    /\ speak_pc = [k \in Ops |-> "none"]

\* The thread of request k ends at position p: its locals are dropped.
Finish(k, p) ==
    /\ pc' = [pc EXCEPT ![k] = p]
    /\ query_text' = [query_text EXCEPT ![k] = None]
    /\ response_data' = [response_data EXCEPT ![k] = None]
    /\ req_name' = [req_name EXCEPT ![k] = None]
    /\ answer' = [answer EXCEPT ![k] = None]

\* --------------------------------------------- AssistantManager: voice turn

\* A listen_and_respond without the test of is_listening: every call starts
\* a worker thread.
listen_and_respond_without_guard ==
    /\ started < MaxOps
    /\ started' = started + 1
    /\ kind' = [kind EXCEPT ![started + 1] = "voice"]
    /\ pc' = [pc EXCEPT ![started + 1] = "v_start"]
    /\ UNCHANGED <<manager_vars, nlp_vars, device_vars, query_text, response_data,
                   req_name, answer, speak_pc>>

\* listen_and_respond: returns when is_listening is set, starts the worker
\* thread otherwise.
listen_and_respond ==
    /\ started < MaxOps
    /\ started' = started + 1
    /\ kind' = [kind EXCEPT ![started + 1] = "voice"]
    /\ pc' = [pc EXCEPT ![started + 1] = IF is_listening THEN "rejected" ELSE "v_start"]
    /\ UNCHANGED <<manager_vars, nlp_vars, device_vars, query_text, response_data,
                   req_name, answer, speak_pc>>

\* _listen_and_respond_thread, line 93.
listen_thread_start(k) ==
    /\ pc[k] = "v_start"
    /\ is_listening' = TRUE
    /\ pc' = [pc EXCEPT ![k] = "v_check"]
    /\ UNCHANGED <<is_speaking, last_query, last_response, conversation_history,
                   user_name, user_type, nlp_vars, device_vars, started, kind,
                   query_text, response_data, req_name, answer, speak_pc>>

\* recognize_from_microphone, lines 52-54: the test of the recognizer's
\* flag; None is returned when it is set.
recognize_check(k) ==
    /\ pc[k] = "v_check"
    /\ pc' = [pc EXCEPT ![k] = IF sr_is_listening THEN "v_ret" ELSE "v_set"]
    /\ UNCHANGED <<manager_vars, nlp_vars, device_vars, started, kind, query_text,
                   response_data, req_name, answer, speak_pc>>

\* recognize_from_microphone, line 56.
recognize_set(k) ==
    /\ pc[k] = "v_set"
    /\ sr_is_listening' = TRUE
    /\ pc' = [pc EXCEPT ![k] = "v_open"]
    /\ UNCHANGED <<manager_vars, nlp_vars, microphone, tts_is_speaking, started, kind,
                   query_text, response_data, req_name, answer, speak_pc>>

\* recognize_from_microphone, lines 58-65 and 97-101: the microphone is
\* opened and the listening-started callback runs, or opening it raises and
\* None is returned through the finally clause, which clears the flag.
recognize_open(k) ==
    /\ pc[k] = "v_open"
    /\ \/ /\ microphone' = microphone \cup {k}
          /\ pc' = [pc EXCEPT ![k] = "v_listen"]
          /\ UNCHANGED sr_is_listening
       \/ /\ sr_is_listening' = FALSE
          /\ pc' = [pc EXCEPT ![k] = "v_ret"]
          /\ UNCHANGED microphone
    /\ UNCHANGED <<manager_vars, nlp_vars, tts_is_speaking, started, kind, query_text,
                   response_data, req_name, answer, speak_pc>>

\* recognize_from_microphone, lines 68-80 and 100-101: audio is captured and
\* the listening-ended callback, _on_listening_end (assistant_manager.py,
\* lines 236-241), clears is_listening; or the silence timeout returns None
\* through the finally clause.
recognize_listen(k) ==
    /\ pc[k] = "v_listen"
    /\ \/ /\ is_listening' = FALSE
          /\ pc' = [pc EXCEPT ![k] = "v_transcribe"]
          /\ UNCHANGED <<sr_is_listening, microphone>>
       \/ /\ microphone' = microphone \ {k}
          /\ sr_is_listening' = FALSE
          /\ pc' = [pc EXCEPT ![k] = "v_ret"]
          /\ UNCHANGED is_listening
    /\ UNCHANGED <<is_speaking, last_query, last_response, conversation_history,
                   user_name, user_type, nlp_vars, tts_is_speaking, started, kind,
                   query_text, response_data, req_name, answer, speak_pc>>

\* recognize_from_microphone, lines 83-101: the transcription r returns a
\* text or fails; the microphone is closed and the finally clause clears
\* the flag.
recognize_transcribe(k, r) ==
    /\ pc[k] = "v_transcribe"
    /\ query_text' = [query_text EXCEPT ![k] = IF r.kind = "text" THEN Some(r.text) ELSE None]
    /\ microphone' = microphone \ {k}
    /\ sr_is_listening' = FALSE
    /\ pc' = [pc EXCEPT ![k] = "v_ret"]
    /\ UNCHANGED <<manager_vars, nlp_vars, tts_is_speaking, started, kind,
                   response_data, req_name, answer, speak_pc>>

\* A test "if query_text is not None" in the place of "if query_text".
voice_query_is_not_none(q) == q # None

\* _listen_and_respond_thread, line 101: "if query_text".
voice_has_query(q) == Truthy(q)

\* A worker thread whose else branch does not clear is_listening.
listen_thread_branch_without_release(k) ==
    /\ pc[k] = "v_ret"
    /\ IF Truthy(query_text[k])
       THEN /\ last_query' = query_text[k]
            /\ pc' = [pc EXCEPT ![k] = "p_query"]
            /\ UNCHANGED <<is_listening, query_text, response_data, req_name, answer>>
       ELSE /\ Finish(k, "no_speech")
            /\ UNCHANGED <<is_listening, last_query>>
    /\ UNCHANGED <<is_speaking, last_response, conversation_history, user_name,
                   user_type, nlp_vars, device_vars, started, kind, speak_pc>>

\* _listen_and_respond_thread, lines 101-102 and 129-131.
listen_thread_branch(k) ==
    /\ pc[k] = "v_ret"
    /\ IF voice_has_query(query_text[k])
       THEN /\ last_query' = query_text[k]
            /\ pc' = [pc EXCEPT ![k] = "p_query"]
            /\ UNCHANGED <<is_listening, query_text, response_data, req_name, answer>>
       ELSE /\ is_listening' = FALSE
            /\ Finish(k, "no_speech")
            /\ UNCHANGED last_query
    /\ UNCHANGED <<is_speaking, last_response, conversation_history, user_name,
                   user_type, nlp_vars, device_vars, started, kind, speak_pc>>

\* ---------------------------------------------- AssistantManager: text turn

\* process_text_input, line 162: "if not text".
text_rejected(text) == ~Truthy(Some(text))

\* process_text_input(text), lines 162-165, on a thread of its own.
process_text_input(text) ==
    /\ started < MaxOps
    /\ started' = started + 1
    /\ kind' = [kind EXCEPT ![started + 1] = "text"]
    /\ IF text_rejected(text)
       THEN /\ pc' = [pc EXCEPT ![started + 1] = "rejected"]
            /\ UNCHANGED <<last_query, query_text>>
       ELSE /\ last_query' = Some(text)
            /\ query_text' = [query_text EXCEPT ![started + 1] = Some(text)]
            /\ pc' = [pc EXCEPT ![started + 1] = "p_query"]
    /\ UNCHANGED <<is_listening, is_speaking, last_response, conversation_history,
                   user_name, user_type, nlp_vars, device_vars, response_data,
                   req_name, answer, speak_pc>>

\* ------------------------------------ the pipeline of a voice or a text turn

\* A process_query that sends every utterance that is not empty to the
\* Answer Service, commands too.
process_query_always_dispatch(k) ==
    /\ pc[k] = "p_query"
    /\ IF ~Truthy(query_text[k])
       THEN /\ response_data' = [response_data EXCEPT ![k] = Some(EmptyQueryRecord)]
            /\ pc' = [pc EXCEPT ![k] = "p_last"]
            /\ UNCHANGED req_name
       ELSE /\ req_name' = [req_name EXCEPT ![k] = Some(nlp_user_name)]
            /\ pc' = [pc EXCEPT ![k] = "p_send"]
            /\ UNCHANGED response_data
    /\ UNCHANGED <<manager_vars, nlp_vars, device_vars, started, kind, query_text,
                   answer, speak_pc>>

\* process_query, lines 53-64 and 73: an empty query is answered at once, a
\* command is handled, and for any other text the dispatcher's user name is
\* read for the request.
process_query(k) ==
    /\ pc[k] = "p_query"
    /\ IF ~Truthy(query_text[k])
       THEN /\ response_data' = [response_data EXCEPT ![k] = Some(EmptyQueryRecord)]
            /\ pc' = [pc EXCEPT ![k] = "p_last"]
            /\ UNCHANGED <<nlp_vars, req_name, answer>>
       ELSE LET s == query_text[k][1]
                intent == detect_command_intent(s)
                h == handle_command(intent, s)
            IN  IF intent # "none"
                THEN /\ nlp_user_name' = IF h.name # None THEN h.name[1] ELSE nlp_user_name
                     /\ nlp_user_type' = IF h.type # None THEN h.type[1] ELSE nlp_user_type
                     /\ response_data' = [response_data EXCEPT ![k] = Some(h.rec)]
                     /\ pc' = [pc EXCEPT ![k] = "p_last"]
                     /\ UNCHANGED <<req_name, answer>>
                ELSE /\ req_name' = [req_name EXCEPT ![k] = Some(nlp_user_name)]
                     /\ pc' = [pc EXCEPT ![k] = "p_send"]
                     /\ UNCHANGED <<nlp_vars, response_data, answer>>
    /\ UNCHANGED <<manager_vars, device_vars, started, kind, query_text, speak_pc>>

\* The request RAGAPIClient.query sends for turn k.
RequestOf(k) == Payload(query_text[k][1], req_name[k][1], nlp_user_type)

\* process_query, line 74, and RAGAPIClient.query, lines 60-91: the user
\* type is read and the request is sent.
rag_send(k) ==
    /\ pc[k] = "p_send"
    /\ pc' = [pc EXCEPT ![k] = "p_wait"]
    /\ UNCHANGED <<manager_vars, nlp_vars, device_vars, started, kind, query_text,
                   response_data, req_name, answer, speak_pc>>

\* RAGAPIClient.query, lines 96-121, and process_query, lines 77-97: the
\* Answer Service behaves as http and the dispatcher makes its record of it.
\* An exception that leaves process_query ends the thread.
rag_reply(k, http) ==
    /\ pc[k] = "p_wait"
    /\ LET r == process_query_try(query_text[k][1], rag_client_query(query_text[k][1], http))
       IN  IF r.raised
           THEN /\ pc' = [pc EXCEPT ![k] = "raised"]
                /\ answer' = [answer EXCEPT ![k] = Some(http)]
                /\ req_name' = [req_name EXCEPT ![k] = None]
                /\ UNCHANGED <<query_text, response_data>>
           ELSE /\ response_data' = [response_data EXCEPT ![k] = Some(r.value)]
                /\ pc' = [pc EXCEPT ![k] = "p_last"]
                /\ req_name' = [req_name EXCEPT ![k] = None]
                /\ answer' = [answer EXCEPT ![k] = Some(http)]
                /\ UNCHANGED query_text
    /\ UNCHANGED <<manager_vars, nlp_vars, device_vars, started, kind, speak_pc>>

\* A turn that speaks the response as soon as the record is there.
set_last_response_then_speak(k) ==
    /\ pc[k] = "p_last"
    /\ last_response' = response_data[k]
    /\ pc' = [pc EXCEPT ![k] = "p_speak"]
    /\ UNCHANGED <<is_listening, is_speaking, last_query, conversation_history,
                   user_name, user_type, nlp_vars, device_vars, started, kind,
                   query_text, response_data, req_name, answer, speak_pc>>

\* Lines 106 and 169: last_response = response_data.
set_last_response(k) ==
    /\ pc[k] = "p_last"
    /\ last_response' = response_data[k]
    /\ pc' = [pc EXCEPT ![k] = "p_cmp"]
    /\ UNCHANGED <<is_listening, is_speaking, last_query, conversation_history,
                   user_name, user_type, nlp_vars, device_vars, started, kind,
                   query_text, response_data, req_name, answer, speak_pc>>

\* Lines 109 and 172: has the dispatcher's user information changed?
user_info_differs(k) ==
    /\ pc[k] = "p_cmp"
    /\ pc' = [pc EXCEPT ![k] = IF user_name # nlp_user_name \/ user_type # nlp_user_type
                               THEN "p_name" ELSE "p_append"]
    /\ UNCHANGED <<manager_vars, nlp_vars, device_vars, started, kind, query_text,
                   response_data, req_name, answer, speak_pc>>

\* Lines 110 and 173.
copy_user_name(k) ==
    /\ pc[k] = "p_name"
    /\ user_name' = nlp_user_name
    /\ pc' = [pc EXCEPT ![k] = "p_type"]
    /\ UNCHANGED <<is_listening, is_speaking, last_query, last_response,
                   conversation_history, user_type, nlp_vars, device_vars, started,
                   kind, query_text, response_data, req_name, answer, speak_pc>>

\* A turn that does not copy the dispatcher's user type.
copy_user_type_skipped(k) ==
    /\ pc[k] = "p_type"
    /\ pc' = [pc EXCEPT ![k] = "p_info"]
    /\ UNCHANGED <<manager_vars, nlp_vars, device_vars, started, kind, query_text,
                   response_data, req_name, answer, speak_pc>>

\* Lines 111 and 174.
copy_user_type(k) ==
    /\ pc[k] = "p_type"
    /\ user_type' = nlp_user_type
    /\ pc' = [pc EXCEPT ![k] = "p_info"]
    /\ UNCHANGED <<is_listening, is_speaking, last_query, last_response,
                   conversation_history, user_name, nlp_vars, device_vars, started,
                   kind, query_text, response_data, req_name, answer, speak_pc>>

\* Lines 112-113 and 175-176: the user-info-changed callback, called with
\* (user_name, user_type).
on_user_info_change(k) ==
    /\ pc[k] = "p_info"
    /\ pc' = [pc EXCEPT ![k] = "p_append"]
    /\ UNCHANGED <<manager_vars, nlp_vars, device_vars, started, kind, query_text,
                   response_data, req_name, answer, speak_pc>>

\* Lines 116-121 and 179-184: the History entry of turn k.
HistoryEntry(k) ==
    [query |-> query_text[k][1], response |-> response_data[k][1],
     user_name |-> user_name, user_type |-> user_type]

\* A turn that assigns a new list holding its entry alone to
\* conversation_history.
history_append_replacing(k) ==
    /\ pc[k] = "p_append"
    /\ conversation_history' = <<HistoryEntry(k)>>
    /\ pc' = [pc EXCEPT ![k] = "p_notify"]
    /\ UNCHANGED <<is_listening, is_speaking, last_query, last_response, user_name,
                   user_type, nlp_vars, device_vars, started, kind, query_text,
                   response_data, req_name, answer, speak_pc>>

\* Lines 116-121 and 179-184.
history_append(k) ==
    /\ pc[k] = "p_append"
    /\ conversation_history' = Append(conversation_history, HistoryEntry(k))
    /\ pc' = [pc EXCEPT ![k] = "p_notify"]
    /\ UNCHANGED <<is_listening, is_speaking, last_query, last_response, user_name,
                   user_type, nlp_vars, device_vars, started, kind, query_text,
                   response_data, req_name, answer, speak_pc>>

\* Lines 124-125 and 187-188: the response-ready callback, called with
\* response_data.
on_response(k) ==
    /\ pc[k] = "p_notify"
    /\ pc' = [pc EXCEPT ![k] = "p_speak"]
    /\ UNCHANGED <<manager_vars, nlp_vars, device_vars, started, kind, query_text,
                   response_data, req_name, answer, speak_pc>>

\* Lines 128 and 191: the text turn k hands to _speak_response.
SpokenText(k) == response_data[k][1].response

\* _speak_response, line 140.
speak_response(k) ==
    /\ pc[k] = "p_speak"
    /\ is_speaking' = TRUE
    /\ pc' = [pc EXCEPT ![k] = "p_tts"]
    /\ UNCHANGED <<is_listening, last_query, last_response, conversation_history,
                   user_name, user_type, nlp_vars, device_vars, started, kind,
                   query_text, response_data, req_name, answer, speak_pc>>

\* TextToSpeech.speak(SpokenText(k)), lines 92-105: an empty text and a
\* request made while speaking are dropped; otherwise the speech thread is
\* started.
tts_speak(k) ==
    /\ pc[k] = "p_tts"
    /\ speak_pc' = [speak_pc EXCEPT ![k] = IF SpokenText(k) = << >> \/ tts_is_speaking
                                           THEN "dropped" ELSE "s_start"]
    /\ Finish(k, "done")
    /\ UNCHANGED <<manager_vars, nlp_vars, device_vars, started, kind>>

\* ------------------------------------------------------------ TextToSpeech

\* _speak_thread, lines 118-122: the flag is set and the speaking-started
\* callback runs.
speak_thread_start(k) ==
    /\ speak_pc[k] = "s_start"
    /\ tts_is_speaking' = TRUE
    /\ speak_pc' = [speak_pc EXCEPT ![k] = "s_play"]
    /\ UNCHANGED <<manager_vars, nlp_vars, sr_is_listening, microphone, started, kind,
                   pc, query_text, response_data, req_name, answer>>

\* _speak_thread, lines 124-131: the playback ends, or the engine fails and
\* the failure is logged; the finally clause clears the flag.
speak_thread_play(k) ==
    /\ speak_pc[k] = "s_play"
    /\ tts_is_speaking' = FALSE
    /\ \E failed \in BOOLEAN :
          speak_pc' = [speak_pc EXCEPT ![k] = IF failed THEN "s_failed" ELSE "s_end"]
    /\ UNCHANGED <<manager_vars, nlp_vars, sr_is_listening, microphone, started, kind,
                   pc, query_text, response_data, req_name, answer>>

\* A speaking-ended callback that leaves is_speaking as it is.
on_speaking_end_keeps_flag(k) ==
    /\ speak_pc[k] \in {"s_end", "s_failed"}
    /\ speak_pc' = [speak_pc EXCEPT ![k] = "s_done"]
    /\ UNCHANGED <<manager_vars, nlp_vars, device_vars, started, kind, pc,
                   query_text, response_data, req_name, answer>>

\* _speak_thread, lines 133-134: the speaking-ended callback,
\* _on_speaking_end (assistant_manager.py, lines 249-254).
on_speaking_end(k) ==
    /\ speak_pc[k] \in {"s_end", "s_failed"}
    /\ is_speaking' = FALSE
    /\ speak_pc' = [speak_pc EXCEPT ![k] = "s_done"]
    /\ UNCHANGED <<is_listening, last_query, last_response, conversation_history,
                   user_name, user_type, nlp_vars, device_vars, started, kind, pc,
                   query_text, response_data, req_name, answer>>

\* ----------------------------------------------------------- specifications

\* A step of the recognition of voice turn k.
VoiceStep(k, heard) ==
    \/ listen_thread_start(k)
    \/ recognize_check(k)
    \/ recognize_set(k)
    \/ recognize_open(k)
    \/ recognize_listen(k)
    \/ \E r \in heard : recognize_transcribe(k, r)
    \/ listen_thread_branch(k)

\* A step of the pipeline of turn k.
PipelineStep(k, replies) ==
    \/ process_query(k)
    \/ rag_send(k)
    \/ \E http \in replies : rag_reply(k, http)
    \/ set_last_response(k)
    \/ user_info_differs(k)
    \/ copy_user_name(k)
    \/ copy_user_type(k)
    \/ on_user_info_change(k)
    \/ history_append(k)
    \/ on_response(k)
    \/ speak_response(k)
    \/ tts_speak(k)

\* A step of the speech thread of turn k.
SpeechStep(k) ==
    \/ speak_thread_start(k)
    \/ speak_thread_play(k)
    \/ on_speaking_end(k)

\* Requests are made and threads run in any order.
Next ==
    \/ listen_and_respond
    \/ \E text \in TextInputs : process_text_input(text)
    \/ \E k \in Ops : VoiceStep(k, Transcriptions)
    \/ \E k \in Ops : PipelineStep(k, HttpBehaviours)
    \/ \E k \in Ops : SpeechStep(k)

Spec == Init /\ [][Next]_vars

\* No thread is running and nothing is being spoken.
Quiet ==
    /\ \A k \in Ops : pc[k] \in Ended \cup {"none"}
    /\ \A k \in Ops : speak_pc[k] \in {"none", "dropped", "s_done"}

\* One turn at a time: a request is made when the turn before it, and its
\* speech, have ended.  The inputs are the wide ones.
TurnNext ==
    \/ Quiet /\ listen_and_respond
    \/ \E text \in AllTextInputs : Quiet /\ process_text_input(text)
    \/ \E k \in Ops : VoiceStep(k, AllTranscriptions)
    \/ \E k \in Ops : PipelineStep(k, AllHttpBehaviours)
    \/ \E k \in Ops : SpeechStep(k)

TurnSpec == Init /\ [][TurnNext]_vars

\* What the recognizer hears in the voice turns of FairSpec.
VoiceTranscriptions == Transcriptions \cup {Heard(TxtIAmAStaff)}

\* How the Answer Service behaves in the voice turns of FairSpec.
VoiceReplies == {FullReply, Failure("timeout")}

\* Every voice turn has ended: its worker thread has returned (what it
\* handed to speech output may still be playing).
VoiceQuiet == \A k \in Ops : kind[k] = "voice" => pc[k] \in Ended

\* Voice turns, each requested when the worker of the one before it has
\* returned.
VoiceNext ==
    \/ VoiceQuiet /\ listen_and_respond
    \/ \E k \in Ops : VoiceStep(k, VoiceTranscriptions)
    \/ \E k \in Ops : PipelineStep(k, VoiceReplies)
    \/ \E k \in Ops : SpeechStep(k)

\* Threads are scheduled fairly and the collaborators (the recognizer, the
\* Answer Service, the speech engine) return: a thread that can take a step
\* takes one.
FairSpec ==
    /\ Init /\ [][VoiceNext]_vars
    /\ \A k \in Ops : WF_vars(VoiceStep(k, VoiceTranscriptions))
    /\ \A k \in Ops : WF_vars(PipelineStep(k, VoiceReplies))
    /\ \A k \in Ops : WF_vars(SpeechStep(k))

\* ---------------------------------------------- AssistantManager: identity

\* set_user_info, line 205: the user types it accepts.
valid_user_types == {PatStaff, PatStudent}

\* A set_user_info that writes to the manager only.
set_user_info_manager_only(name, type) ==
    /\ started < MaxOps
    /\ started' = started + 1
    /\ kind' = [kind EXCEPT ![started + 1] = "info"]
    /\ pc' = [pc EXCEPT ![started + 1] = "returned"]
    /\ user_name' = IF Truthy(name) THEN name[1] ELSE user_name
    /\ user_type' = IF Truthy(type) /\ type[1] \in valid_user_types THEN type[1] ELSE user_type
    /\ UNCHANGED <<is_listening, is_speaking, last_query, last_response,
                   conversation_history, nlp_vars, device_vars, query_text,
                   response_data, req_name, answer, speak_pc>>

\* set_user_info(user_name, user_type), lines 201-207, called with optional
\* texts: a name that is given and not empty is written to the manager and
\* to the dispatcher, and so is a type that is one of the two accepted.  The
\* call runs on the caller's thread and returns.
set_user_info(name, type) ==
    /\ started < MaxOps
    /\ started' = started + 1
    /\ kind' = [kind EXCEPT ![started + 1] = "info"]
    /\ pc' = [pc EXCEPT ![started + 1] = "returned"]
    /\ user_name' = IF Truthy(name) THEN name[1] ELSE user_name
    /\ nlp_user_name' = IF Truthy(name) THEN name[1] ELSE nlp_user_name
    /\ user_type' = IF Truthy(type) /\ type[1] \in valid_user_types THEN type[1] ELSE user_type
    /\ nlp_user_type' = IF Truthy(type) /\ type[1] \in valid_user_types THEN type[1] ELSE nlp_user_type
    /\ UNCHANGED <<is_listening, is_speaking, last_query, last_response,
                   conversation_history, device_vars, query_text, response_data,
                   req_name, answer, speak_pc>>

\* What set_user_info returns: the function has no return statement.
set_user_info_result(name, type) == None

\* set_user_info, lines 209-210: whether the user-info-changed callback is
\* called (with the manager's name and type after the writes).
set_user_info_notifies(name, type) == Truthy(name) \/ Truthy(type)

\* get_user_info, lines 219-222.
get_user_info == [user_name |-> user_name, user_type |-> user_type]

TxtAlice == <<"A", "l", "i", "c", "e">>

TxtAdmin == <<"a", "d", "m", "i", "n">>

TxtIAmAStudent == <<"i", " ", "a", "m", " ", "a", " ", "s", "t", "u", "d", "e", "n", "t">>

TxtIAmALongStaff == <<"i", " ", "a", "m", " ", "a", " ", LongS, "t", "a", "f", "f">>

TxtIAmATeacher == <<"i", " ", "a", "m", " ", "a", " ", "t", "e", "a", "c", "h", "e", "r">>

TxtSetNameBob == <<"S", "e", "t", " ", "m", "y", " ", "n", "a", "m", "e", " ", "t", "o", " ", "B", "o", "b">>

TxtSetNameBlank == <<"s", "e", "t", " ", "m", "y", " ", "n", "a", "m", "e", " ", "t", "o", " ", " ">>

\* The arguments set_user_info is called with, as pairs <<name, type>>.
InfoCalls ==
    {<<Some(TxtAlice), Some(PatStaff)>>, <<None, Some(PatStudent)>>,
     <<None, Some(TxtAdmin)>>, <<Some(TxtAlice), Some(TxtAdmin)>>,
     <<Some(TxtEmpty), Some(TxtEmpty)>>}

\* The texts typed, and what the recognizer hears, in the turns of
\* IdentitySpec.
IdentityTexts ==
    {TxtIAmAStaff, TxtIAmAStudent, TxtIAmALongStaff, TxtIAmATeacher, TxtSetNameBob, TxtSetNameBlank}

IdentityTranscriptions == {Heard(TxtIAmAStaff), UnknownValueError}

\* Turns one at a time, with set_user_info called at any moment, also in
\* the middle of a turn.
IdentityNext ==
    \/ \E call \in InfoCalls : set_user_info(call[1], call[2])
    \/ \E text \in IdentityTexts : Quiet /\ process_text_input(text)
    \/ Quiet /\ listen_and_respond
    \/ \E k \in Ops : VoiceStep(k, IdentityTranscriptions)
    \/ \E k \in Ops : PipelineStep(k, HttpBehaviours)
    \/ \E k \in Ops : SpeechStep(k)

IdentitySpec == Init /\ [][IdentityNext]_vars

\* One turn at a time with the wide inputs, threads scheduled fairly and
\* the collaborators returning.
TurnFairSpec ==
    /\ TurnSpec
    /\ \A k \in Ops : WF_vars(VoiceStep(k, AllTranscriptions))
    /\ \A k \in Ops : WF_vars(PipelineStep(k, AllHttpBehaviours))
    /\ \A k \in Ops : WF_vars(SpeechStep(k))

\* ------------------------------------ set_user_info, statement by statement

\* The call the main window makes when the user saves a name and a type,
\* main_window.py line 274.
RaceCall == <<Some(TxtAlice), Some(PatStaff)>>

\* set_user_info is entered on the caller's thread: nothing is written yet.
set_user_info_call ==
    /\ started < MaxOps
    /\ started' = started + 1
    /\ kind' = [kind EXCEPT ![started + 1] = "info"]
    /\ pc' = [pc EXCEPT ![started + 1] = "i_name"]
    /\ UNCHANGED <<manager_vars, nlp_vars, device_vars, query_text,
                   response_data, req_name, answer, speak_pc>>

\* set_user_info, lines 201-202: the manager's name.
set_manager_name(k) ==
    /\ pc[k] = "i_name"
    /\ user_name' = IF Truthy(RaceCall[1]) THEN RaceCall[1][1] ELSE user_name
    /\ pc' = [pc EXCEPT ![k] = "i_nlp_name"]
    /\ UNCHANGED <<is_listening, is_speaking, last_query, last_response,
                   conversation_history, user_type, nlp_vars, device_vars,
                   started, kind, query_text, response_data, req_name, answer,
                   speak_pc>>

\* set_user_info, line 203: the dispatcher's name.
set_nlp_name(k) ==
    /\ pc[k] = "i_nlp_name"
    /\ nlp_user_name' = IF Truthy(RaceCall[1]) THEN RaceCall[1][1] ELSE nlp_user_name
    /\ pc' = [pc EXCEPT ![k] = "i_type"]
    /\ UNCHANGED <<manager_vars, nlp_user_type, device_vars, started, kind,
                   query_text, response_data, req_name, answer, speak_pc>>

\* set_user_info, lines 205-206: the manager's type.
set_manager_type(k) ==
    /\ pc[k] = "i_type"
    /\ user_type' = IF Truthy(RaceCall[2]) /\ RaceCall[2][1] \in valid_user_types
                    THEN RaceCall[2][1] ELSE user_type
    /\ pc' = [pc EXCEPT ![k] = "i_nlp_type"]
    /\ UNCHANGED <<is_listening, is_speaking, last_query, last_response,
                   conversation_history, user_name, nlp_vars, device_vars,
                   started, kind, query_text, response_data, req_name, answer,
                   speak_pc>>

\* set_user_info, lines 207-210: the dispatcher's type, then the
\* user-info-changed callback, and the call returns.
set_nlp_type(k) ==
    /\ pc[k] = "i_nlp_type"
    /\ nlp_user_type' = IF Truthy(RaceCall[2]) /\ RaceCall[2][1] \in valid_user_types
                        THEN RaceCall[2][1] ELSE nlp_user_type
    /\ pc' = [pc EXCEPT ![k] = "returned"]
    /\ UNCHANGED <<manager_vars, nlp_user_name, device_vars, started, kind,
                   query_text, response_data, req_name, answer, speak_pc>>

\* Text turns and set_user_info calls on threads of their own, in any
\* order, set_user_info one statement at a time.
RaceNext ==
    \/ set_user_info_call
    \/ \E k \in Ops : set_manager_name(k)
    \/ \E k \in Ops : set_nlp_name(k)
    \/ \E k \in Ops : set_manager_type(k)
    \/ \E k \in Ops : set_nlp_type(k)
    \/ \E text \in TextInputs : process_text_input(text)
    \/ \E k \in Ops : PipelineStep(k, HttpBehaviours)
    \/ \E k \in Ops : SpeechStep(k)

RaceSpec == Init /\ [][RaceNext]_vars

\* ------------------------------------------- the controls of the main window

\* A repeat_last_response that says the fixed sentence whether or not
\* there is a last record.
repeat_last_response_fixed_text ==
    /\ started < MaxOps
    /\ started' = started + 1
    /\ kind' = [kind EXCEPT ![started + 1] = "repeat"]
    /\ response_data' = [response_data EXCEPT ![started + 1] =
                            Some([response |-> MsgNothingSaid])]
    /\ pc' = [pc EXCEPT ![started + 1] = "p_speak"]
    /\ UNCHANGED <<manager_vars, nlp_vars, device_vars, query_text, req_name,
                   answer, speak_pc>>

\* repeat_last_response, lines 148-153: the text of the last record, or a
\* fixed sentence when there is none, goes to _speak_response.  The call
\* holds the text in its own frame and makes no record.
repeat_last_response ==
    /\ started < MaxOps
    /\ started' = started + 1
    /\ kind' = [kind EXCEPT ![started + 1] = "repeat"]
    /\ response_data' = [response_data EXCEPT ![started + 1] =
                            IF last_response # None
                            THEN Some([response |-> last_response[1].response])
                            ELSE Some([response |-> MsgNothingSaid])]
    /\ pc' = [pc EXCEPT ![started + 1] = "p_speak"]
    /\ UNCHANGED <<manager_vars, nlp_vars, device_vars, query_text, req_name,
                   answer, speak_pc>>

\* A clear_conversation_history that also puts the identity back to the
\* defaults.
clear_conversation_history_resetting_identity ==
    /\ started < MaxOps
    /\ started' = started + 1
    /\ kind' = [kind EXCEPT ![started + 1] = "clear"]
    /\ pc' = [pc EXCEPT ![started + 1] = "returned"]
    /\ conversation_history' = << >>
    /\ last_query' = None
    /\ last_response' = None
    /\ user_name' = DEFAULT_USER_NAME
    /\ user_type' = DEFAULT_USER_TYPE
    /\ nlp_user_name' = DEFAULT_USER_NAME
    /\ nlp_user_type' = DEFAULT_USER_TYPE
    /\ UNCHANGED <<is_listening, is_speaking, device_vars, query_text,
                   response_data, req_name, answer, speak_pc>>

\* A stop_speaking that also ends the playbacks of TextToSpeech.
stop_speaking_ending_playback ==
    /\ started < MaxOps
    /\ started' = started + 1
    /\ kind' = [kind EXCEPT ![started + 1] = "stop"]
    /\ pc' = [pc EXCEPT ![started + 1] = "returned"]
    /\ is_speaking' = FALSE
    /\ tts_is_speaking' = FALSE
    /\ speak_pc' = [k \in Ops |-> IF speak_pc[k] \in {"s_start", "s_play"}
                                  THEN "s_done" ELSE speak_pc[k]]
    /\ UNCHANGED <<is_listening, last_query, last_response, conversation_history,
                   user_name, user_type, nlp_vars, sr_is_listening, microphone,
                   query_text, response_data, req_name, answer>>

\* stop_speaking, lines 224-228: the manager's flag is cleared; TextToSpeech
\* is not called.
stop_speaking ==
    /\ started < MaxOps
    /\ started' = started + 1
    /\ kind' = [kind EXCEPT ![started + 1] = "stop"]
    /\ pc' = [pc EXCEPT ![started + 1] = "returned"]
    /\ is_speaking' = FALSE
    /\ UNCHANGED <<is_listening, last_query, last_response, conversation_history,
                   user_name, user_type, nlp_vars, device_vars, query_text,
                   response_data, req_name, answer, speak_pc>>

\* clear_conversation_history, lines 265-269.
clear_conversation_history ==
    /\ started < MaxOps
    /\ started' = started + 1
    /\ kind' = [kind EXCEPT ![started + 1] = "clear"]
    /\ pc' = [pc EXCEPT ![started + 1] = "returned"]
    /\ conversation_history' = << >>
    /\ last_query' = None
    /\ last_response' = None
    /\ UNCHANGED <<is_listening, is_speaking, user_name, user_type, nlp_vars,
                   device_vars, query_text, response_data, req_name, answer,
                   speak_pc>>

\* Text and voice turns on threads of their own and the buttons of the main
\* window, pressed at any moment; a voice turn is requested when the worker
\* of the voice turn before it has returned.
ControlNext ==
    \/ \E text \in TextInputs : process_text_input(text)
    \/ VoiceQuiet /\ listen_and_respond
    \/ \E k \in Ops : VoiceStep(k, {Heard(TxtHi), UnknownValueError})
    \/ repeat_last_response
    \/ stop_speaking
    \/ clear_conversation_history
    \/ set_user_info(RaceCall[1], RaceCall[2])
    \/ \E k \in Ops : PipelineStep(k, HttpBehaviours)
    \/ \E k \in Ops : SpeechStep(k)

ControlSpec == Init /\ [][ControlNext]_vars

\* -------------------------------------------------- the command matcher

\* Utterances for the command matcher: the phrasings of the pattern table
\* in mixed case, texts that only start like one, and "help" followed by a
\* newline.
MatchTexts ==
    {<<"H", "E", "L", "P">>,
     <<"W", "h", "a", "t", " ", "c", "a", "n", " ", "y", "o", "u", " ", "d", "o">>,
     <<"w", "h", "a", "t", " ", "c", "o", "m", "m", "a", "n", "d", "s", " ", "a", "r", "e", " ", "t", "h", "e", "r", "e">>,
     <<"Q", "u", "i", "t">>,
     <<"G", "o", "o", "d", "B", "y", "e">>,
     <<"w", "h", "a", "t", " ", "d", "i", "d", " ", "y", "o", "u", " ", "s", "a", "y", "?">>,
     <<"C", "h", "a", "n", "g", "e", " ", "m", "y", " ", "n", "a", "m", "e", " ", "t", "o", " ", "A", "l">>,
     <<"W", "h", "o", " ", "a", "r", "e", " ", "y", "o", "u">>,
     <<"W", "h", "a", "t", " ", "i", "s", " ", "y", "o", "u", "r", " ", "n", "a", "m", "e">>,
     <<"h", "e", "l", "p", "f", "u", "l">>,
     <<"s", "a", "y", " ", "t", "h", "a", "t">>,
     <<"h", "e", "l", "p", "\n">>,
     TxtRepeat, TxtSayThatAgain, TxtIAmAStaff, TxtIAmAStudent, TxtIAmATeacher,
     TxtSetNameBob, TxtHi}

\* Text turns one at a time, each with one of the utterances above.
MatchNext ==
    \/ \E text \in MatchTexts : Quiet /\ process_text_input(text)
    \/ \E k \in Ops : PipelineStep(k, HttpBehaviours)
    \/ \E k \in Ops : SpeechStep(k)

MatchSpec == Init /\ [][MatchNext]_vars

\* ------------------------------------------------------------------ properties

Last(s) == s[Len(s)]

\* The positions of a voice turn inside recognize_from_microphone and
\* around it, before the pipeline.
RecognitionPositions == {"v_start", "v_check", "v_set", "v_open", "v_listen", "v_transcribe", "v_ret"}

\* The positions of a turn from classification to the response-ready event.
PipelinePositions == {"p_query", "p_send", "p_wait", "p_last", "p_cmp", "p_name", "p_type", "p_info", "p_append", "p_notify"}

\* The voice turns that have started and not yet finished their pipeline.
ActiveVoiceTurns ==
    {k \in Ops : kind[k] = "voice" /\ pc[k] \in RecognitionPositions \cup PipelinePositions}

\* C1: at most one thread at a time is inside the microphone session of the
\* speech-input collaborator, under any interleaving of listen_and_respond
\* calls.
C1_OneMicrophoneSession == Cardinality(microphone) <= 1

\* C2: at most one voice turn is active at a time: while one has not yet
\* finished its pipeline, no second voice turn runs.
C2_OneActiveVoiceTurn == Cardinality(ActiveVoiceTurns) <= 1

\* A step that is a call of listen_and_respond.
ListenCall == started' = started + 1 /\ kind'[started + 1] = "voice"

\* C3: a listen_and_respond call made while is_listening is true starts no
\* thread, moves no other thread (no collaborator is invoked, no event
\* fires) and leaves the manager, the dispatcher and the devices unchanged.
C3_BusyListenIsNoOp ==
    [][(ListenCall /\ is_listening) =>
          /\ pc'[started + 1] = "rejected"
          /\ \A k \in Ops \ {started + 1} : pc'[k] = pc[k]
          /\ UNCHANGED <<manager_vars, nlp_vars, device_vars, query_text,
                         response_data, req_name, answer, speak_pc>>]_vars

\* A listen_and_respond call was rejected.
C3_Witness == \E k \in Ops : kind[k] = "voice" /\ pc[k] = "rejected"

\* C4: every voice turn releases the listening flag, whatever its outcome:
\* every voice turn that starts ends, and whenever the voice turns have
\* ended is_listening is false, and so are the recognizer's flag and the
\* microphone, so that the next listen_and_respond is accepted and reaches
\* the microphone.
C4_ListeningReleased ==
    /\ [](VoiceQuiet => (~is_listening /\ ~sr_is_listening /\ microphone = {}))
    /\ \A k \in Ops : (pc[k] = "v_start") ~> (pc[k] \in Ended)

\* A voice turn ended without an utterance, every other voice turn has
\* ended, and a later voice turn is inside the microphone session.
C4_Witness ==
    \E j, k \in Ops :
        /\ j < k
        /\ kind[j] = "voice" /\ pc[j] = "no_speech"
        /\ kind[k] = "voice" /\ k \in microphone
        /\ \A i \in Ops \ {k} : kind[i] = "voice" => pc[i] \in Ended

\* C5: a voice turn whose speech input returns no utterance ends before
\* classification: none of its steps appends to History, changes
\* last_query or last_response, or starts speech, and it ends at lines
\* 129-131 without entering the pipeline (no Answer Service call, no
\* response-ready event).
C5_NoUtteranceEndsTurn ==
    [][\A k \in Ops :
          (/\ pc[k] \in RecognitionPositions
           /\ pc'[k] # pc[k]
           /\ ~(pc[k] = "v_ret" /\ Truthy(query_text[k])))
          => /\ pc'[k] \in RecognitionPositions \cup {"no_speech"}
             /\ UNCHANGED <<conversation_history, last_query, last_response, speak_pc,
                            response_data, answer>>]_vars

\* A voice turn has ended without an utterance.
C5_Witness == \E k \in Ops : kind[k] = "voice" /\ pc[k] = "no_speech"

\* C6: process_text_input rejects a text that is empty after trimming: no
\* such text enters the pipeline or becomes last_query.
C6_BlankTextRejected ==
    /\ \A k \in Ops : (kind[k] = "text" /\ query_text[k] # None) => Strip(query_text[k][1]) # << >>
    /\ last_query # None => Strip(last_query[1]) # << >>

\* The Answer Service failed on the request of turn k.
Failed(k) == answer[k] # None /\ answer[k][1].kind # "json"

\* The record of a failed dispatch.
FailureRecord(r) ==
    /\ r.success = FALSE
    /\ "error" \in DOMAIN r /\ r.error # << >>
    /\ r.response = MsgApology

\* C7: when the Answer Service call fails, the turn goes on through the
\* pipeline with a record that has success = false, a non-empty error and
\* the apology as response; that record is appended to History and is the
\* one the response-ready event is called with.
C7_FailureIsNormalTurn ==
    \A k \in Ops :
        Failed(k) =>
           /\ pc[k] \in {"p_last", "p_cmp", "p_name", "p_type", "p_info", "p_append", "p_notify", "p_speak", "p_tts"}
           /\ ENABLED PipelineStep(k, AllHttpBehaviours)
           /\ response_data[k] # None
           /\ FailureRecord(response_data[k][1])
           /\ pc[k] \in {"p_notify", "p_speak", "p_tts"} =>
                 /\ conversation_history # << >>
                 /\ Last(conversation_history).response = response_data[k][1]
                 /\ Last(conversation_history).query = query_text[k][1]

\* The response-ready event is about to be called with the record of a
\* failed dispatch.
C7_Witness == \E k \in Ops : Failed(k) /\ pc[k] = "p_notify"

\* C8: process_query never raises to the orchestrator: whatever the
\* utterance and the behaviour of the Answer Service, no thread ends by an
\* exception and every record holds a response text and a success field.
C8_ProcessQueryReturnsRecord ==
    \A k \in Ops :
        /\ pc[k] # "raised"
        /\ response_data[k] # None =>
              /\ {"response", "success"} \subseteq DOMAIN response_data[k][1]
              /\ response_data[k][1].success \in BOOLEAN
              /\ response_data[k][1].response \in Seq(STRING)

\* A record was made of a reply that is not a JSON object, which raises
\* inside RAGAPIClient.query.
C8_Witness ==
    \E k \in Ops :
        /\ answer[k] # None /\ answer[k][1].kind = "json_not_object"
        /\ response_data[k] # None

\* Turn k holds an utterance that is a Repeat command.
RepeatTurn(k) == query_text[k] # None /\ detect_command_intent(query_text[k][1]) = "repeat"

\* C9: a turn whose utterance is a Repeat command appends nothing to
\* History and does not replace last_response.
C9_RepeatLeavesHistory ==
    [][\A k \in Ops :
          (RepeatTurn(k) /\ pc'[k] # pc[k]) => UNCHANGED <<conversation_history, last_response>>]_vars

\* The History entries of the turns before turn k, taken one turn at a
\* time: each turn that went through the pipeline appended one.
EarlierRecords(k) ==
    SubSeq(conversation_history, 1, Cardinality({j \in 1..(k - 1) : pc[j] = "done"}))

\* C10: the text a Repeat turn hands to speech output is the response text
\* of the most recent earlier record, or the nothing-said-yet message when
\* there is none.
C10_RepeatSpeaksLastResponse ==
    [][\A k \in Ops :
          (RepeatTurn(k) /\ pc[k] = "p_tts" /\ pc'[k] # pc[k]) =>
              SpokenText(k) = IF EarlierRecords(k) = << >>
                              THEN MsgNothingSaid
                              ELSE Last(EarlierRecords(k)).response.response]_vars

\* C11: in every reachable state the user type held by the manager and the
\* one held by the dispatcher are each "staff" or "student".
C11_UserTypeIsValid == user_type \in valid_user_types /\ nlp_user_type \in valid_user_types

\* C12: set_user_info called with a user type that is neither "staff" nor
\* "student" leaves the name and the type unchanged, in the manager and in
\* the dispatcher, and returns a validation failure.
C12_InvalidTypeIsRejected ==
    [][\A call \in InfoCalls :
          (/\ set_user_info(call[1], call[2])
           /\ Truthy(call[2])
           /\ call[2][1] \notin valid_user_types)
          => /\ UNCHANGED <<user_name, user_type, nlp_vars>>
             /\ set_user_info_result(call[1], call[2]) # None]_vars

\* C13: after set_user_info(name, type) with a name that is not empty and a
\* type that is "staff" or "student", get_user_info returns that name and
\* type and the dispatcher holds the same pair, whatever the state before.
C13_SetThenGetUserInfo ==
    [][\A call \in InfoCalls :
          (/\ set_user_info(call[1], call[2])
           /\ Truthy(call[1])
           /\ Truthy(call[2])
           /\ call[2][1] \in valid_user_types)
          => /\ get_user_info' = [user_name |-> call[1][1], user_type |-> call[2][1]]
             /\ nlp_user_name' = call[1][1]
             /\ nlp_user_type' = call[2][1]]_vars

\* set_user_info("Alice", "staff") has returned, called when the type was
\* not "staff" or the manager and the dispatcher did not agree.
C13_Witness ==
    /\ \E k \in Ops : kind[k] = "info" /\ pc[k] = "returned"
    /\ user_name = TxtAlice /\ user_type = PatStaff
    /\ nlp_user_name = TxtAlice /\ nlp_user_type = PatStaff

\* Turn k holds an utterance that is "i am a staff" or "i am a student" in
\* some letter case.
TypeCommandTurn(k) ==
    /\ query_text[k] # None
    /\ Lower(query_text[k][1]) \in {PatIAmA \o PatStaff, PatIAmA \o PatStudent}

\* The word after "i am a " in the utterance of turn k, in lower case.
SpokenType(k) == SubSeq(Lower(query_text[k][1]), Len(PatIAmA) + 1, Len(query_text[k][1]))

\* C14: a text or voice turn whose utterance is "i am a staff" or "i am a
\* student" in any letter case has set the user type, in the dispatcher and
\* in the manager, to the lower-case word when its response-ready event
\* fires (no set_user_info call having been made since the turn began), and
\* none of its steps changes the user name.
C14_TypeCommandSetsType ==
    /\ [](\A k \in Ops :
             (TypeCommandTurn(k) /\ pc[k] = "p_notify" /\ started = k)
             => (nlp_user_type = SpokenType(k) /\ user_type = SpokenType(k)))
    /\ [][\A k \in Ops :
             (TypeCommandTurn(k) /\ pc'[k] # pc[k])
             => UNCHANGED <<user_name, nlp_user_name>>]_vars

\* The response-ready event of a turn that heard or read "I am a STAFF" is
\* about to fire, and the manager and the dispatcher hold "staff".
C14_Witness ==
    \E k \in Ops :
        /\ query_text[k] = Some(TxtIAmAStaff)
        /\ pc[k] = "p_notify" /\ started = k
        /\ user_type = PatStaff /\ nlp_user_type = PatStaff

\* Turn k holds an utterance that is a SetUserType or SetUserName command.
IdentityCommandTurn(k) ==
    /\ query_text[k] # None
    /\ detect_command_intent(query_text[k][1]) \in {"set_user_type", "set_user_name"}

\* C15: every turn that handles a SetUserType or SetUserName command fires
\* the user-info-changed event, once and before its response-ready event:
\* after the command is handled the turn does not go on to the History
\* append without the event.
C15_IdentityCommandNotifies ==
    [][\A k \in Ops :
          (IdentityCommandTurn(k) /\ pc[k] = "p_cmp" /\ pc'[k] # pc[k])
          => pc'[k] = "p_name"]_vars

\* Turn k holds an utterance "i am a X" where X is neither "staff" nor
\* "student".
OtherTypeTurn(k) ==
    /\ query_text[k] # None
    /\ Len(query_text[k][1]) > Len(PatIAmA)
    /\ Lower(SubSeq(query_text[k][1], 1, Len(PatIAmA))) = PatIAmA
    /\ SubSeq(Lower(query_text[k][1]), Len(PatIAmA) + 1, Len(query_text[k][1])) \notin valid_user_types

\* C16: an utterance "i am a X" with X outside staff/student is not a
\* command: its record is the answer of the Answer Service, with
\* is_command false, and none of the turn's steps changes the identity.
C16_OtherTypeIsQuery ==
    /\ [](\A k \in Ops :
             (OtherTypeTurn(k) /\ response_data[k] # None)
             => (response_data[k][1].is_command = FALSE /\ answer[k] # None))
    /\ [][\A k \in Ops :
             (OtherTypeTurn(k) /\ pc'[k] # pc[k])
             => UNCHANGED <<user_name, user_type, nlp_vars>>]_vars

\* Turn k holds a SetUserName command whose name is empty after trimming.
BlankNameTurn(k) ==
    /\ query_text[k] # None
    /\ detect_command_intent(query_text[k][1]) = "set_user_name"
    /\ Strip(NameGroup(query_text[k][1])[1]) = << >>

\* C17: a SetUserName command whose name is empty after trimming does not
\* update the identity: no step of the turn changes the user name in the
\* dispatcher or in the manager, and the turn does not fire the
\* user-info-changed event.
C17_BlankNameIsIgnored ==
    [][\A k \in Ops :
          (BlankNameTurn(k) /\ pc'[k] # pc[k])
          => (UNCHANGED <<user_name, nlp_user_name>> /\ pc[k] # "p_info")]_vars

\* Turn k has appended its entry to History.
Appended(k) == pc[k] \in {"p_notify", "p_speak", "p_tts", "done"}

\* The places in History of the entries with the query and the record that
\* turn k holds.
EntriesOf(k) ==
    {i \in 1..Len(conversation_history) :
        /\ conversation_history[i].query = query_text[k][1]
        /\ conversation_history[i].response = response_data[k][1]}

\* C18: for any interleaving of text and voice turns, each turn that has an
\* utterance appends exactly one entry to History and fires the
\* response-ready event once, with the record of that entry: History holds
\* one entry for each turn that has passed its append, it changes only by
\* a turn appending its own entry, and the event is called with the record
\* the turn appended.
C18_OneEntryPerTurn ==
    /\ [](Len(conversation_history) = Cardinality({k \in Ops : Appended(k)}))
    /\ [](\A k \in Ops : pc[k] = "p_notify" => EntriesOf(k) # {})
    /\ [][\A k \in Ops :
             (pc[k] = "p_append" /\ pc'[k] # pc[k])
             => (/\ conversation_history' = Append(conversation_history, HistoryEntry(k))
                 /\ pc'[k] = "p_notify")]_vars
    /\ [][conversation_history' # conversation_history
             => \E k \in Ops : pc[k] = "p_append" /\ pc'[k] = "p_notify"]_vars
    /\ [][\A k \in Ops :
             (pc[k] = "p_notify" /\ pc'[k] # pc[k])
             => (pc'[k] = "p_speak" /\ response_data'[k] = response_data[k])]_vars

\* Two turns running at once have both appended their entries and neither
\* has fired its response-ready event.
C18_Witness ==
    \E j, k \in Ops : j # k /\ pc[j] = "p_notify" /\ pc[k] = "p_notify"

\* The steps of a turn, in the order of the statements: from one position
\* a turn goes to the next one of these pairs only.
PipelineOrder ==
    {<<"p_query", "p_send">>, <<"p_query", "p_last">>, <<"p_send", "p_wait">>,
     <<"p_wait", "p_last">>, <<"p_last", "p_cmp">>, <<"p_cmp", "p_name">>,
     <<"p_cmp", "p_append">>, <<"p_name", "p_type">>, <<"p_type", "p_info">>,
     <<"p_info", "p_append">>, <<"p_append", "p_notify">>, <<"p_notify", "p_speak">>,
     <<"p_speak", "p_tts">>, <<"p_tts", "done">>}

\* C19: within one turn the steps happen in order: the record is produced,
\* then the user-info-changed event if the identity changed, then the
\* History append, then the response-ready event, and only then is the
\* text handed to speech output.
C19_PipelineOrder ==
    /\ [][\A k \in Ops :
             (pc[k] \in PipelinePositions \cup {"p_speak", "p_tts"} /\ pc'[k] # pc[k])
             => <<pc[k], pc'[k]>> \in PipelineOrder]_vars
    /\ [](\A k \in Ops :
             pc[k] \in {"p_last", "p_cmp", "p_name", "p_type", "p_info", "p_append",
                        "p_notify", "p_speak", "p_tts"} => response_data[k] # None)
    /\ [](\A k \in Ops : speak_pc[k] # "none" => pc[k] = "done")

\* A turn that changed the user type has handed its text to speech output,
\* after the user-info-changed event, the append and the response-ready
\* event.
C19_Witness ==
    \E k \in Ops :
        /\ pc[k] = "done" /\ speak_pc[k] = "s_start"
        /\ user_type = PatStaff
        /\ conversation_history # << >>

\* C20: across concurrent turns, History entries are in the order in which
\* the response-ready events fire: the entry of a turn whose event has
\* fired comes before the entry of a turn whose event has not.
C20_HistoryInEventOrder ==
    \A j, k \in Ops :
        (/\ j # k
         /\ pc[j] \in {"p_speak", "p_tts"}
         /\ pc[k] = "p_notify"
         /\ Cardinality(EntriesOf(j)) = 1
         /\ Cardinality(EntriesOf(k)) = 1)
        => (CHOOSE i \in EntriesOf(j) : TRUE) < (CHOOSE i \in EntriesOf(k) : TRUE)

\* C22: every turn that produces a response record has its text spoken:
\* the request the turn makes to speech output is not dropped, also when
\* the response before it is still being spoken.
C22_EveryResponseIsSpoken ==
    \A k \in Ops : pc[k] = "done" => speak_pc[k] # "dropped"

\* C23: at most one speech playback is in flight at a time.
C23_OnePlayback ==
    Cardinality({k \in Ops : speak_pc[k] = "s_play"}) <= 1

\* C24: when the speech engine fails during playback no exception leaves
\* the speech thread or a turn, the failure changes neither History,
\* last_response nor the identity, and the speaking-ended event still fires
\* and clears is_speaking.
C24_SpeechFailureIsSwallowed ==
    /\ [][\A k \in Ops :
             (speak_pc[k] = "s_play" /\ speak_pc'[k] = "s_failed")
             => UNCHANGED <<conversation_history, last_response, last_query,
                            user_name, user_type, nlp_vars, pc>>]_vars
    /\ [](\A k \in Ops : speak_pc[k] = "s_failed" => ENABLED on_speaking_end(k))
    /\ [][\A k \in Ops :
             (speak_pc[k] = "s_failed" /\ speak_pc'[k] # speak_pc[k])
             => (/\ speak_pc'[k] = "s_done"
                 /\ is_speaking' = FALSE
                 /\ UNCHANGED <<conversation_history, last_response, user_name,
                                user_type, nlp_vars, pc>>)]_vars

\* The speaking-ended event has fired after a playback that failed or
\* ended: here the playback of a turn failed and its event is due.
C24_Witness == \E k \in Ops : speak_pc[k] = "s_failed" /\ is_speaking

\* C27: a turn whose utterance matches a command pattern does not call the
\* Answer Service and its record has is_command true; a turn whose
\* utterance is not empty and matches no pattern calls the Answer Service
\* once and its record has is_command false.
C27_CommandsAreNotDispatched ==
    /\ [][\A k \in Ops :
             (pc[k] = "p_query" /\ pc'[k] # pc[k] /\ Truthy(query_text[k]))
             => pc'[k] = IF detect_command_intent(query_text[k][1]) # "none"
                         THEN "p_last" ELSE "p_send"]_vars
    /\ [][\A k \in Ops :
             (pc[k] \in {"p_send", "p_wait"} /\ pc'[k] # pc[k])
             => <<pc[k], pc'[k]>> \in {<<"p_send", "p_wait">>, <<"p_wait", "p_last">>}]_vars
    /\ [](\A k \in Ops :
             (Truthy(query_text[k]) /\ response_data[k] # None)
             => IF detect_command_intent(query_text[k][1]) # "none"
                THEN response_data[k][1].is_command = TRUE /\ answer[k] = None
                ELSE response_data[k][1].is_command = FALSE /\ answer[k] # None)

\* A command turn has its record without a reply of the Answer Service.
C27_Witness ==
    \E k \in Ops :
        /\ query_text[k] = Some(TxtSayThatAgain)
        /\ response_data[k] # None /\ answer[k] = None

\* C28: every request sent to the Answer Service carries the dispatcher's
\* user name and user type as read at the dispatch, and the utterance as
\* message.
C28_RequestCarriesIdentity ==
    [][\A k \in Ops :
          (pc[k] = "p_send" /\ pc'[k] = "p_wait")
          => (/\ RequestOf(k).name = req_name[k][1]
              /\ RequestOf(k).user_type = nlp_user_type
              /\ RequestOf(k).message = query_text[k][1])]_vars

\* C30: when the Answer Service replies with a JSON object the record has
\* success true, is_command false, the utterance as query, the reply's
\* response as response, and the reply's confidence and sources, or 0.0
\* and the empty list when the reply has none.
C30_SuccessRecord ==
    \A k \in Ops :
        (answer[k] # None /\ answer[k][1].kind = "json" /\ response_data[k] # None)
        => LET body == answer[k][1].body
               rec == response_data[k][1]
           IN  /\ rec.success = TRUE
               /\ rec.is_command = FALSE
               /\ rec.query = query_text[k][1]
               /\ "response" \in DOMAIN body => rec.response = body.response
               /\ rec.confidence = IF "confidence" \in DOMAIN body THEN body.confidence ELSE 0
               /\ rec.sources = IF "sources" \in DOMAIN body THEN body.sources ELSE << >>

\* Records were made of a reply with confidence and sources and of a reply
\* without them.
C30_Witness ==
    \E j, k \in Ops :
        /\ answer[k] = Some(Json([response |-> <<"hello">>])) /\ response_data[k] # None
        /\ conversation_history # << >>
        /\ conversation_history[1].response.success = TRUE
        /\ conversation_history[1].response.sources # << >>
        /\ j < k

\* C21: a turn that runs while set_user_info(name, type) or the identity
\* command of another turn runs never reads a half-written identity: the
\* name and the type of every request and of every History entry are a pair
\* the identity had before or after an update as a whole.  Here the updates
\* are the command "I am a STAFF" and the call set_user_info("Alice",
\* "staff").
C21_IdentityReadWhole ==
    /\ [](\A i \in 1..Len(conversation_history) :
             <<conversation_history[i].user_name, conversation_history[i].user_type>>
             \in {<<DEFAULT_USER_NAME, DEFAULT_USER_TYPE>>,
                  <<DEFAULT_USER_NAME, PatStaff>>,
                  <<RaceCall[1][1], RaceCall[2][1]>>})
    /\ [][\A k \in Ops :
             (pc[k] = "p_send" /\ pc'[k] = "p_wait")
             => <<RequestOf(k).name, RequestOf(k).user_type>>
                \in {<<DEFAULT_USER_NAME, DEFAULT_USER_TYPE>>,
                     <<DEFAULT_USER_NAME, PatStaff>>,
                     <<RaceCall[1][1], RaceCall[2][1]>>}]_vars

C29_HistoryAppendOnly ==
    [][conversation_history' # conversation_history
       => \/ /\ \E k \in Ops : kind[k] = "none" /\ kind'[k] = "clear"
             /\ conversation_history' = << >>
          \/ /\ Len(conversation_history') = Len(conversation_history) + 1
             /\ SubSeq(conversation_history', 1, Len(conversation_history))
                = conversation_history]_vars

\* History was cleared after a turn appended to it.
C29_Witness ==
    \E j, k \in Ops :
        /\ j < k /\ kind[k] = "clear" /\ kind[j] = "text" /\ pc[j] = "done"
        /\ conversation_history = << >>

\* C26: the command matcher is a case-insensitive function of the
\* utterance: each listed phrasing yields its intent and every other string
\* yields none.  Listed is the listing, read on the utterance in lower
\* case: the exact phrases, the two open-ended ones as prefixes, and the
\* name phrasing with a name after it.
C26_MatcherFollowsListing ==
    LET Prefix(s, p) == Len(s) >= Len(p) /\ SubSeq(s, 1, Len(p)) = p
        Listed(s) ==
            LET l == Lower(s)
            IN  IF l \in {PatHelp, PatWhatCanYouDo} \/ Prefix(l, PatWhatCommands)
                THEN "help"
                ELSE IF l \in {PatExit, PatQuit, PatGoodbye}
                THEN "exit"
                ELSE IF l \in {PatRepeat, PatSayThatAgain} \/ Prefix(l, PatWhatDidYouSay)
                THEN "repeat"
                ELSE IF l \in {PatIAmA \o PatStaff, PatIAmA \o PatStudent}
                THEN "set_user_type"
                ELSE IF \E i \in 1..Len(NameVerbs) :
                            /\ Prefix(l, NameVerbs[i] \o PatMyNameTo)
                            /\ Len(l) > Len(NameVerbs[i] \o PatMyNameTo)
                THEN "set_user_name"
                ELSE IF l \in {PatWhatIsYourName, PatWhoAreYou}
                THEN "get_assistant_name"
                ELSE "none"
    IN  \A k \in Ops :
            (Truthy(query_text[k]) /\ response_data[k] # None)
            => IF Listed(query_text[k][1]) = "none"
               THEN response_data[k][1].is_command = FALSE
               ELSE /\ response_data[k][1].is_command = TRUE
                    /\ response_data[k][1].intent = Listed(query_text[k][1])

\* C31: a malformed reply of the Answer Service (a status that is not 2xx,
\* a body that is not JSON, a JSON object without the response field) never
\* becomes a record with success true: the record is the apology with
\* success false and the error.
C31_MalformedReplyIsFailure ==
    \A k \in Ops :
        (/\ answer[k] # None /\ response_data[k] # None
         /\ \/ answer[k][1].kind \in {"bad_status", "not_json"}
            \/ /\ answer[k][1].kind = "json"
               /\ "response" \notin DOMAIN answer[k][1].body)
        => FailureRecord(response_data[k][1])

\* C32: whenever is_speaking is set it becomes false again, with threads
\* scheduled fairly and playbacks that end, whatever the response text is.
C32_SpeakingFlagIsReleased == is_speaking ~> ~is_speaking

\* C33: in every voice turn in which listening-started has fired (the turn
\* is capturing audio), listening-ended fires later in the turn (the turn
\* goes on to the transcription).
C33_ListeningEndFollowsStart ==
    \A k \in Ops : (pc[k] = "v_listen") ~> (pc[k] = "v_transcribe")

\* C34: is_listening is true whenever a voice turn is inside
\* recognize_from_microphone and has not finished capturing audio.
C34_ListeningWhileAcquiring ==
    (\E k \in Ops : pc[k] \in {"v_check", "v_set", "v_open", "v_listen"})
    => is_listening

\* C35: whenever no turn is in progress and a turn has completed,
\* last_response is the record made for last_query.
C35_LastResponseIsForLastQuery ==
    (Quiet /\ \E k \in Ops : pc[k] = "done")
    => (/\ last_response # None /\ last_query # None
        /\ last_response[1].query = last_query[1])

\* C36: whenever no turn and no set_user_info call is in progress, the
\* manager's name and type are the dispatcher's name and type.
C36_IdentityInSync ==
    Quiet => (user_name = nlp_user_name /\ user_type = nlp_user_type)

\* C37: a set_user_info call fires the user-info-changed event only when
\* it changes the user name or the user type.
C37_EventOnlyOnChange ==
    [][\A call \in InfoCalls :
          (set_user_info(call[1], call[2]) /\ set_user_info_notifies(call[1], call[2]))
          => <<user_name, user_type>>' # <<user_name, user_type>>]_vars

\* C38: repeat_last_response hands to speech output the response text of
\* last_response when there is one and the sentence "I haven't said
\* anything yet." when there is none, and no step of the call changes
\* History, last_query, last_response or the identity.
C38_RepeatSpeaksLastRecord ==
    /\ [][\A k \in Ops :
             (kind[k] = "none" /\ kind'[k] = "repeat")
             => (/\ pc'[k] = "p_speak"
                 /\ SpokenText(k)' = IF last_response # None
                                     THEN last_response[1].response
                                     ELSE MsgNothingSaid
                 /\ UNCHANGED <<conversation_history, last_query, last_response,
                                user_name, user_type, nlp_vars>>)]_vars
    /\ [][\A k \in Ops :
             (kind[k] = "repeat" /\ pc'[k] # pc[k])
             => (/\ <<pc[k], pc'[k]>> \in {<<"p_speak", "p_tts">>, <<"p_tts", "done">>}
                 /\ pc[k] = "p_speak" => SpokenText(k)' = SpokenText(k)
                 /\ UNCHANGED <<conversation_history, last_query, last_response,
                                user_name, user_type, nlp_vars>>)]_vars

\* repeat_last_response was called after a turn made a record, and is
\* about to hand that record's text to speech output.
C38_Witness ==
    \E j, k \in Ops :
        /\ kind[j] = "text" /\ kind[k] = "repeat" /\ pc[k] = "p_tts"
        /\ last_response # None
        /\ SpokenText(k) = last_response[1].response
        /\ SpokenText(k) # MsgNothingSaid

\* C39: clear_conversation_history empties History and sets last_query and
\* last_response to none; the identity in the manager and in the
\* dispatcher, is_listening and is_speaking stay as they are, and no turn
\* or speech thread moves (no event fires).
C39_ClearFrame ==
    [][\A k \in Ops :
          (kind[k] = "none" /\ kind'[k] = "clear")
          => (/\ conversation_history' = << >>
              /\ last_query' = None
              /\ last_response' = None
              /\ UNCHANGED <<user_name, user_type, nlp_vars, is_listening,
                             is_speaking, device_vars, speak_pc>>
              /\ \A j \in Ops \ {k} : pc'[j] = pc[j])]_vars

\* History was cleared while the response of a turn under a new identity
\* was being spoken.
C39_Witness ==
    \E j, k \in Ops :
        /\ j < k /\ kind[k] = "clear" /\ kind[j] = "text"
        /\ conversation_history = << >> /\ last_query = None
        /\ is_speaking /\ speak_pc[j] = "s_play"
        /\ user_type = PatStaff /\ nlp_user_type = PatStaff

=============================================================================
